---- MODULE Spec2Model ----
(***************************************************************************)
(* Model of the AluVM runtime core (src/src/runtime.rs): the bounded byte  *)
(* string ByteStr, the library Lib with its hash and its run loop, and the *)
(* Runtime with its registry, entrypoint, registers and call trampoline.   *)
(*                                                                         *)
(* The 16-bit width of the code is scaled down: U16_MAX stands for         *)
(* u16::MAX.  Every comparison and every array size of the code is stated  *)
(* relative to u16::MAX, so the boundary arithmetic (u16::MAX,             *)
(* u16::MAX + 1) is kept as written in the source.                         *)
(***************************************************************************)
EXTENDS Integers, Sequences, FiniteSets, TLC

\* u16::MAX, scaled down.
U16_MAX == 4

\* Cap on run invocations recorded for one call chain (bounds the history).
MaxRuns == 3

\* Cap on Jump outcomes counted inside one call chain (bounds the history).
MaxJumps == 3

\* Option<u16>
None == <<>>
Some(n) == <<n>>

\* The byte values the slices given to ByteStr::with and the fills are made of.
BufBytes == {0, 1}

SeqsUpTo(S, n) == UNION {[1..k -> S] : k \in 0..n}

-----------------------------------------------------------------------------
(* ByteStr *)

\* The length of the array type of ByteStr::bytes: [u8; u16::MAX as usize].
ArrayLen == U16_MAX

ZeroBytes == [i \in 1..ArrayLen |-> 0]

\* impl Default for ByteStr
ByteStr_default == [len |-> Some(0), bytes |-> ZeroBytes]

ByteStr_with_truncating(slice) == FALSE

\* ByteStr::with panics: by its assert!, or by the range index bytes[0..len]
\* on the array of ArrayLen bytes.
ByteStr_with_panics(slice) ==
    \/ ~(Len(slice) <= U16_MAX + 1)
    \/ Len(slice) > ArrayLen

\* ByteStr::with, where it does not panic.
ByteStr_with(slice) ==
    [len   |-> IF Len(slice) > U16_MAX THEN None ELSE Some(Len(slice)),
     bytes |-> [i \in 1..ArrayLen |-> IF i <= Len(slice) THEN slice[i] ELSE 0]]

\* ByteStr::len
ByteStr_len(b) == IF b.len = None THEN U16_MAX + 1 ELSE b.len[1]

\* AsRef<[u8]> for ByteStr: &self.bytes[..self.len()] panics when len() exceeds
\* the array.
as_ref_panics(b) == ByteStr_len(b) > Len(b.bytes)

as_ref(b) == SubSeq(b.bytes, 1, ByteStr_len(b))

adjust_len_strict(b, new_len, inclusive) ==
    IF b.len # None /\ new_len = U16_MAX /\ inclusive
        THEN [b EXCEPT !.len = None]
    ELSE IF b.len # None /\ inclusive /\ b.len[1] < new_len
        THEN [b EXCEPT !.len = Some(new_len + 1)]
    ELSE IF b.len # None /\ ~inclusive /\ b.len[1] < new_len
        THEN [b EXCEPT !.len = Some(new_len)]
    ELSE b

adjust_len_shrinking(b, new_len, inclusive) ==
    IF b.len = None THEN b
    ELSE IF inclusive /\ new_len = U16_MAX THEN [b EXCEPT !.len = None]
    ELSE IF inclusive THEN [b EXCEPT !.len = Some(new_len + 1)]
    ELSE [b EXCEPT !.len = Some(new_len)]

\* ByteStr::adjust_len: the match on (self.len, new_len, inclusive), arm by arm.
adjust_len(b, new_len, inclusive) ==
    IF b.len # None /\ new_len = U16_MAX /\ inclusive
        THEN [b EXCEPT !.len = None]
    ELSE IF b.len # None /\ inclusive /\ b.len[1] <= new_len
        THEN [b EXCEPT !.len = Some(new_len + 1)]
    ELSE IF b.len # None /\ ~inclusive /\ b.len[1] < new_len
        THEN [b EXCEPT !.len = Some(new_len)]
    ELSE b

\* ByteStr::fill panics in self.bytes[start..=end]: the inclusive range is the
\* half-open start..end+1, which must be ordered and end inside the array.
fill_panics(b, start, end) ==
    \/ start > end + 1
    \/ end + 1 > Len(b.bytes)

\* ByteStr::fill, where it does not panic.
fill(b, start, end, val) ==
    [adjust_len(b, end, TRUE) EXCEPT
        !.bytes = [i \in 1..Len(b.bytes) |->
                     IF start + 1 <= i /\ i <= end + 1 THEN val ELSE b.bytes[i]]]

-----------------------------------------------------------------------------
(* Lib, LibHash, LibSite *)

\* Lib::with: the library holding the compiled bytecode (compile writes the
\* encoded bytes into a zeroed ByteStr and sets its length).
Lib_with(code) == [bytecode |-> ByteStr_with(code)]

\* LibHash::hash, a tagged SHA-256, modelled as collision-free: the digest is
\* identified with its preimage.  The all-zero digest of LibHash::default()
\* is taken to have no preimage.
LibHash_hash(data) == [zero |-> FALSE, pre |-> data]

LibHash_default == [zero |-> TRUE, pre |-> <<>>]

\* Lib::lib_hash: LibHash::hash(&*self.bytecode.bytes), the hash of the whole
\* array behind the Box.
lib_hash(lib) == LibHash_hash(lib.bytecode.bytes)

\* Lib::byte_count
byte_count(lib) == ByteStr_len(lib.bytecode)

\* Lib::bytecode
bytecode(lib) == as_ref(lib.bytecode)

\* LibSite::with
LibSite_with(pos, lib) == [lib |-> lib, pos |-> pos]

\* LibSite::default()
LibSite_default == [lib |-> LibHash_default, pos |-> 0]

-----------------------------------------------------------------------------
(* The libraries given to the runtime.  Opcodes of their programs: 0 no-op, *)
(* 1 stop, 2 negate st0, 3 jump to the offset in the next byte, 4 call the  *)
(* site named by the next byte (an index into SiteTable); any other byte is *)
(* no instruction.                                                          *)

\* negate st0; call LibB at offset 1
LibA == Lib_with(<<2, 4, 0>>)

\* offset 0: stop.  offset 1: negate st0; stop
LibB == Lib_with(<<1, 2, 1>>)

\* LibB followed by one more encoded byte, a no-op
LibB0 == Lib_with(<<1, 2, 1, 0>>)

\* jump to 2; jump to U16_MAX; the end of the array
LibJ == Lib_with(<<3, 2, 3, U16_MAX>>)

\* negate st0; call LibL at offset 0: a cycle of Call outcomes
LibL == Lib_with(<<2, 4, 1>>)

\* negate st0; jump to 0: a cycle of Jump outcomes
LibK == Lib_with(<<2, 3, 0>>)

\* negate st0; a byte that is no opcode
LibD == Lib_with(<<2, 7>>)

\* no-op: a library never given to the runtime
LibX == Lib_with(<<0>>)

\* stop: a program of a single halting instruction
LibH == Lib_with(<<1>>)

\* negate st0; call LibX at offset 0
LibU == Lib_with(<<2, 4, 2>>)

LibPool == {LibA, LibB, LibB0, LibJ, LibL, LibK, LibD, LibU, LibH}

\* The sites a call instruction can name, by operand byte.
SiteTable ==
    <<LibSite_with(1, lib_hash(LibB)),
      LibSite_with(0, lib_hash(LibL)),
      LibSite_with(0, lib_hash(LibX))>>

\* The sites given to Runtime::call.
EntrySites ==
    {LibSite_with(0, lib_hash(l)) : l \in {LibA, LibB, LibJ, LibL, LibK, LibD, LibU}}
        \cup {LibSite_with(1, lib_hash(LibB)), LibSite_with(3, lib_hash(LibB)),
              LibSite_default}

\* The sites given to Runtime::set_entrypoint.
EntrypointSites == {LibSite_with(1, lib_hash(LibB)), LibSite_default}

-----------------------------------------------------------------------------
(* Cursor, Instr::read, Instr::exec: the instruction-set contract *)

\* Cursor::is_eof on a cursor over bytes, at position pos
is_eof(bytes, pos) == pos >= Len(bytes)

\* Instr::read at position pos: the instruction and the position after it, or
\* a decode failure (an unknown opcode, a missing or malformed operand).
Instr_read(bytes, pos) ==
    LET op == bytes[pos + 1]
        has == pos + 1 < Len(bytes)
        arg == IF has THEN bytes[pos + 2] ELSE 0
        bad == [ok |-> FALSE, op |-> "nop", arg |-> 0, next |-> pos]
    IN  CASE op = 0 -> [ok |-> TRUE, op |-> "nop", arg |-> 0, next |-> pos + 1]
          [] op = 1 -> [ok |-> TRUE, op |-> "stop", arg |-> 0, next |-> pos + 1]
          [] op = 2 -> [ok |-> TRUE, op |-> "not", arg |-> 0, next |-> pos + 1]
          [] op = 3 -> IF has /\ arg <= U16_MAX
                         THEN [ok |-> TRUE, op |-> "jmp", arg |-> arg, next |-> pos + 2]
                         ELSE bad
          [] op = 4 -> IF has /\ arg < Len(SiteTable)
                         THEN [ok |-> TRUE, op |-> "call", arg |-> arg, next |-> pos + 2]
                         ELSE bad
          [] OTHER -> bad

\* ExecStep
Stop == [kind |-> "Stop", pos |-> 0, site |-> LibSite_default]
NextStep == [kind |-> "Next", pos |-> 0, site |-> LibSite_default]
Jump(pos) == [kind |-> "Jump", pos |-> pos, site |-> LibSite_default]
CallStep(site) == [kind |-> "Call", pos |-> 0, site |-> site]

\* Instr::exec on the registers: the outcome, and the registers it leaves.
Instr_exec(instr, regs, site) ==
    CASE instr.op = "nop"  -> [step |-> NextStep, regs |-> regs]
      [] instr.op = "stop" -> [step |-> Stop, regs |-> regs]
      [] instr.op = "not"  -> [step |-> NextStep, regs |-> [regs EXCEPT !.st0 = ~regs.st0]]
      [] instr.op = "jmp"  -> [step |-> Jump(instr.arg), regs |-> regs]
      [] instr.op = "call" -> [step |-> CallStep(SiteTable[instr.arg + 1]), regs |-> regs]

-----------------------------------------------------------------------------
VARIABLES
    bs,         \* a ByteStr value under test
    src,        \* the slice bs was constructed from by ByteStr::with
    bop,        \* the last ByteStr operation: its name, its new_len or end
                \* argument, its inclusive argument, and len() before it
    bpanic      \* whether that operation panicked

bvars == <<bs, src, bop, bpanic>>

VARIABLES
    libs,       \* Runtime::libs: LibHash -> Lib
    entrypoint, \* Runtime::entrypoint
    registers,  \* Runtime::registers
    regs0,      \* Registers::default() of the register bank in use
    pc,         \* "idle", or the place Runtime::call is at: "lookup", "run", "returned"
    method,     \* the local `method` of Runtime::call
    self,       \* the library Lib::run runs on
    cursor,     \* the position of the cursor of Lib::run
    result,     \* what the last Runtime::call returned
    added,      \* what the last Runtime::add_lib returned
    runs,       \* history: the run invocations of the call chain, in order
    lookups,    \* history: the hashes the call chain looked up, in order
    njumps,     \* history: the number of Jump outcomes in the call chain
    ncalls,     \* history: the number of Call outcomes in the call chain
    entry_regs       \* history: the registers at the entry_regs of the call chain

rvars == <<libs, entrypoint, registers, regs0, pc, method, self, cursor, result,
           added, runs, lookups, njumps, ncalls, entry_regs>>

vars == <<bs, src, bop, bpanic, libs, entrypoint, registers, regs0, pc, method,
          self, cursor, result, added, runs, lookups, njumps, ncalls, entry_regs>>

-----------------------------------------------------------------------------
(* Operations on a ByteStr value *)

NoArgs(name) == [name |-> name, arg |-> 0, incl |-> FALSE, pre |-> 0]

BufInit ==
    /\ bs = ByteStr_default
    /\ src = <<>>
    /\ bop = NoArgs("default")
    /\ bpanic = FALSE

\* ByteStr::default()
BufDefault ==
    /\ bs' = ByteStr_default
    /\ src' = <<>>
    /\ bop' = NoArgs("default")
    /\ bpanic' = FALSE
    /\ UNCHANGED rvars

\* ByteStr::with(slice): a new value, or a panic that produces none.
BufWith(slice) ==
    /\ src' = slice
    /\ bop' = NoArgs("with")
    /\ IF ByteStr_with_panics(slice)
         THEN bpanic' = TRUE /\ bs' = ByteStr_default
         ELSE bpanic' = FALSE /\ bs' = ByteStr_with(slice)
    /\ UNCHANGED rvars

\* bs.adjust_len(new_len, inclusive)
BufAdjustLen(new_len, inclusive) ==
    /\ ~bpanic
    /\ bs' = adjust_len(bs, new_len, inclusive)
    /\ bop' = [name |-> "adjust_len", arg |-> new_len, incl |-> inclusive,
               pre |-> ByteStr_len(bs)]
    /\ src' = <<>>
    /\ UNCHANGED <<bpanic, rvars>>

\* bs.fill(start..=end, val): the length is adjusted first, then the range
\* index may panic and leave the bytes as they were.
BufFill(start, end, val) ==
    /\ ~bpanic
    /\ bop' = [name |-> "fill", arg |-> end, incl |-> TRUE, pre |-> ByteStr_len(bs)]
    /\ src' = <<>>
    /\ IF fill_panics(bs, start, end)
         THEN bpanic' = TRUE /\ bs' = adjust_len(bs, end, TRUE)
         ELSE bpanic' = FALSE /\ bs' = fill(bs, start, end, val)
    /\ UNCHANGED rvars

BufNext ==
    \/ BufDefault
    \/ \E slice \in SeqsUpTo(BufBytes, U16_MAX + 2) : BufWith(slice)
    \/ \E n \in 0..U16_MAX, incl \in BOOLEAN : BufAdjustLen(n, incl)
    \/ \E s \in 0..U16_MAX, e \in 0..U16_MAX, v \in BufBytes : BufFill(s, e, v)

-----------------------------------------------------------------------------
(* Runtime *)

\* Result<bool, NoLibraryError>
Ok(b) == [ok |-> TRUE, val |-> b, err |-> LibHash_default]
Err(h) == [ok |-> FALSE, val |-> FALSE, err |-> h]

NoLibraryError_entry(h) == entrypoint.lib

\* NoLibraryError(hash)
NoLibraryError(h) == h

NoLib == Lib_with(<<>>)

NoMap == [h \in {} |-> NoLib]

\* BTreeMap::insert: the value under the key is replaced.
insert(map, key, value) ==
    [h \in DOMAIN map \cup {key} |-> IF h = key THEN value ELSE map[h]]

\* BTreeMap::get
get(map, key) == IF key \in DOMAIN map THEN Some(map[key]) ELSE None

Idle == pc \in {"idle", "returned"}

\* The state a call chain leaves behind is forgotten by the next operation.
Forget(regs) ==
    /\ pc' = "idle"
    /\ method' = LibSite_default
    /\ self' = NoLib
    /\ cursor' = 0
    /\ runs' = <<>>
    /\ lookups' = <<>>
    /\ njumps' = 0
    /\ ncalls' = 0
    /\ entry_regs' = regs

RtInit ==
    /\ regs0 \in [st0 : BOOLEAN]
    /\ libs = NoMap
    /\ entrypoint = LibSite_default
    /\ registers = regs0
    /\ pc = "idle"
    /\ method = LibSite_default
    /\ self = NoLib
    /\ cursor = 0
    /\ result = Ok(FALSE)
    /\ added = None
    /\ runs = <<>>
    /\ lookups = <<>>
    /\ njumps = 0
    /\ ncalls = 0
    /\ entry_regs = regs0

\* Runtime::new()
New ==
    /\ Idle
    /\ libs' = NoMap
    /\ entrypoint' = LibSite_default
    /\ registers' = regs0
    /\ result' = Ok(FALSE)
    /\ added' = None
    /\ Forget(regs0)
    /\ UNCHANGED <<regs0, bvars>>

add_lib_known(map, lib) ==
    [libs |-> insert(map, lib_hash(lib), lib),
     ret  |-> ~(get(map, lib_hash(lib)) = None)]

\* Runtime::add_lib: self.libs.insert(lib.lib_hash(), lib).is_none(), the map
\* it leaves and the value it returns.
add_lib(map, lib) ==
    [libs |-> insert(map, lib_hash(lib), lib),
     ret  |-> get(map, lib_hash(lib)) = None]

\* runtime.add_lib(lib)
AddLib(lib) ==
    /\ Idle
    /\ libs' = add_lib(libs, lib).libs
    /\ added' = Some(add_lib(libs, lib).ret)
    /\ result' = Ok(FALSE)
    /\ Forget(registers)
    /\ UNCHANGED <<entrypoint, registers, regs0, bvars>>

With_default_entrypoint(lib) ==
    /\ Idle
    /\ entrypoint' = LibSite_default
    /\ libs' = add_lib(NoMap, lib).libs
    /\ registers' = regs0
    /\ result' = Ok(FALSE)
    /\ added' = None
    /\ Forget(regs0)
    /\ UNCHANGED <<regs0, bvars>>

\* Runtime::with(lib)
With(lib) ==
    /\ Idle
    /\ entrypoint' = LibSite_with(0, lib_hash(lib))
    /\ libs' = add_lib(NoMap, lib).libs
    /\ registers' = regs0
    /\ result' = Ok(FALSE)
    /\ added' = None
    /\ Forget(regs0)
    /\ UNCHANGED <<regs0, bvars>>

\* Runtime::set_entrypoint(entrypoint)
SetEntrypoint(site) ==
    /\ Idle
    /\ entrypoint' = site
    /\ result' = Ok(FALSE)
    /\ added' = None
    /\ Forget(registers)
    /\ UNCHANGED <<libs, registers, regs0, bvars>>

Call_moving_entrypoint(site) ==
    /\ Idle
    /\ pc' = "lookup"
    /\ method' = site
    /\ self' = NoLib
    /\ cursor' = 0
    /\ result' = Ok(FALSE)
    /\ added' = None
    /\ runs' = <<>>
    /\ lookups' = <<>>
    /\ njumps' = 0
    /\ ncalls' = 0
    /\ entry_regs' = registers
    /\ entrypoint' = site
    /\ UNCHANGED <<libs, registers, regs0, bvars>>

Call_resetting(site) ==
    /\ Idle
    /\ pc' = "lookup"
    /\ method' = site
    /\ self' = NoLib
    /\ cursor' = 0
    /\ result' = Ok(FALSE)
    /\ added' = None
    /\ runs' = <<>>
    /\ lookups' = <<>>
    /\ njumps' = 0
    /\ ncalls' = 0
    /\ entry_regs' = registers
    /\ registers' = regs0
    /\ UNCHANGED <<libs, entrypoint, regs0, bvars>>

\* Runtime::call(method) is entered: the trampoline is at its first lookup.
Call(site) ==
    /\ Idle
    /\ pc' = "lookup"
    /\ method' = site
    /\ self' = NoLib
    /\ cursor' = 0
    /\ result' = Ok(FALSE)
    /\ added' = None
    /\ runs' = <<>>
    /\ lookups' = <<>>
    /\ njumps' = 0
    /\ ncalls' = 0
    /\ entry_regs' = registers
    /\ UNCHANGED <<libs, entrypoint, registers, regs0, bvars>>

\* Runtime::main()
Main == Call(entrypoint)

run_entry_unsought(lib, entry) == [self |-> lib, cursor |-> 0]

\* The entry of Lib::run: a cursor over the whole array self.bytecode.bytes[..],
\* sought to the entrypoint.
run_entry(lib, entry) == [self |-> lib, cursor |-> entry]

\* The head of the `while let`: self.libs.get(&method.lib).ok_or(..)? and, if
\* the library is there, the entry of Lib::run.
\* The history of a call keeps its first MaxRuns entries and counts up to a
\* bound; the steps of the call itself are not limited by it.
Record(history, entry) ==
    IF Len(history) < MaxRuns THEN Append(history, entry) ELSE history

Count(n, max) == IF n < max THEN n + 1 ELSE max

Lookup ==
    /\ pc = "lookup"
    /\ lookups' = Record(lookups, method.lib)
    /\ LET found == get(libs, method.lib)
       IN  IF found = None
             THEN /\ pc' = "returned"
                  /\ result' = Err(NoLibraryError(method.lib))
                  /\ UNCHANGED <<self, cursor, runs>>
             ELSE /\ pc' = "run"
                  /\ self' = run_entry(found[1], method.pos).self
                  /\ cursor' = run_entry(found[1], method.pos).cursor
                  /\ runs' = Record(runs, [lib  |-> lib_hash(found[1]),
                                           pos  |-> method.pos,
                                           regs |-> registers])
                  /\ UNCHANGED result
    /\ UNCHANGED <<libs, entrypoint, registers, regs0, method, added, njumps, ncalls,
                   entry_regs, bvars>>

match_step_jump_returns(step, next, hash) ==
    CASE step.kind = "Stop" -> [ret |-> TRUE, val |-> None, cursor |-> next]
      [] step.kind = "Next" -> [ret |-> FALSE, val |-> None, cursor |-> next]
      [] step.kind = "Jump" ->
           [ret |-> TRUE, val |-> Some(LibSite_with(step.pos, hash)), cursor |-> next]
      [] step.kind = "Call" -> [ret |-> TRUE, val |-> Some(step.site), cursor |-> next]

match_step_next_returns(step, next, hash) ==
    CASE step.kind = "Stop" -> [ret |-> TRUE, val |-> None, cursor |-> next]
      [] step.kind = "Next" -> [ret |-> TRUE, val |-> None, cursor |-> next]
      [] step.kind = "Jump" -> [ret |-> FALSE, val |-> None, cursor |-> step.pos]
      [] step.kind = "Call" -> [ret |-> TRUE, val |-> Some(step.site), cursor |-> next]

match_step_budget(step, next, hash) ==
    CASE step.kind = "Stop" -> [ret |-> TRUE, val |-> None, cursor |-> next]
      [] step.kind = "Next" -> [ret |-> FALSE, val |-> None, cursor |-> next]
      [] step.kind = "Jump" ->
           IF njumps + 1 >= MaxJumps
             THEN [ret |-> TRUE, val |-> None, cursor |-> next]
             ELSE [ret |-> FALSE, val |-> None, cursor |-> step.pos]
      [] step.kind = "Call" -> [ret |-> TRUE, val |-> Some(step.site), cursor |-> next]

\* The match on the ExecStep in Lib::run, with the cursor at next after the
\* read: whether run returns and what, and the cursor it leaves.
match_step(step, next, hash) ==
    CASE step.kind = "Stop" -> [ret |-> TRUE, val |-> None, cursor |-> next]
      [] step.kind = "Next" -> [ret |-> FALSE, val |-> None, cursor |-> next]
      [] step.kind = "Jump" -> [ret |-> FALSE, val |-> None, cursor |-> step.pos]
      [] step.kind = "Call" -> [ret |-> TRUE, val |-> Some(step.site), cursor |-> next]

loop_body_skipping(lib, pos, regs) ==
    IF is_eof(lib.bytecode.bytes, pos)
      THEN [kind |-> "Eof", ret |-> TRUE, val |-> None, cursor |-> pos, regs |-> regs]
    ELSE LET instr == Instr_read(lib.bytecode.bytes, pos)
         IN  IF ~instr.ok
               THEN [kind |-> "Undecoded", ret |-> FALSE, val |-> None, cursor |-> pos + 1,
                     regs |-> regs]
             ELSE LET x == Instr_exec(instr, regs, LibSite_with(instr.next, lib_hash(lib)))
                      m == match_step(x.step, instr.next, lib_hash(lib))
                  IN  [kind |-> x.step.kind, ret |-> m.ret, val |-> m.val,
                       cursor |-> m.cursor, regs |-> x.regs]

\* One pass through the loop of Lib::run on lib with the cursor at pos: the
\* outcome of the instruction ("Eof" and "Undecoded" where none is executed),
\* whether run returns and what, the cursor and the registers it leaves.
loop_body(lib, pos, regs) ==
    IF is_eof(lib.bytecode.bytes, pos)
      THEN [kind |-> "Eof", ret |-> TRUE, val |-> None, cursor |-> pos, regs |-> regs]
    ELSE LET instr == Instr_read(lib.bytecode.bytes, pos)
         IN  IF ~instr.ok
               THEN [kind |-> "Undecoded", ret |-> TRUE, val |-> None, cursor |-> pos,
                     regs |-> regs]
             ELSE LET x == Instr_exec(instr, regs, LibSite_with(instr.next, lib_hash(lib)))
                      m == match_step(x.step, instr.next, lib_hash(lib))
                  IN  [kind |-> x.step.kind, ret |-> m.ret, val |-> m.val,
                       cursor |-> m.cursor, regs |-> x.regs]

call_result_stale(regs) == Ok(entry_regs.st0)

\* Runtime::call after its loop: Ok(self.registers.st0)
call_result(regs) == Ok(regs.st0)

\* One pass through the loop of Lib::run, and what Runtime::call does with
\* the value when run returns: `method = m` and the next lookup for Some(m),
\* the result for None.
RunStep ==
    /\ pc = "run"
    /\ LET x == loop_body(self, cursor, registers)
       IN  /\ registers' = x.regs
           /\ njumps' = IF x.kind = "Jump" THEN Count(njumps, MaxJumps) ELSE njumps
           /\ ncalls' = IF x.kind = "Call" THEN Count(ncalls, MaxRuns) ELSE ncalls
           /\ IF ~x.ret
                THEN /\ cursor' = x.cursor
                     /\ UNCHANGED <<pc, method, result>>
              ELSE IF x.val # None
                THEN /\ pc' = "lookup"
                     /\ method' = x.val[1]
                     /\ UNCHANGED <<cursor, result>>
              ELSE /\ pc' = "returned"
                   /\ result' = call_result(x.regs)
                   /\ UNCHANGED <<cursor, method>>
    /\ UNCHANGED <<libs, entrypoint, regs0, self, added, runs, lookups, entry_regs, bvars>>

-----------------------------------------------------------------------------
(* Specifications *)

Init == BufInit /\ RtInit

Next ==
    \/ New
    \/ \E lib \in LibPool : With(lib)
    \/ \E lib \in LibPool : AddLib(lib)
    \/ \E site \in EntrypointSites : SetEntrypoint(site)
    \/ \E site \in EntrySites : Call(site)
    \/ Main
    \/ Len(runs) < MaxRuns /\ Lookup
    \/ njumps < MaxJumps /\ RunStep

Spec == Init /\ [][Next]_vars

SpecBuf == Init /\ [][BufNext]_vars

\* The runtime with the steps of a call unlimited: a call that has started
\* keeps taking the steps of its loops.
NextLive ==
    \/ New
    \/ \E lib \in LibPool : With(lib)
    \/ \E lib \in LibPool : AddLib(lib)
    \/ \E site \in EntrypointSites : SetEntrypoint(site)
    \/ \E site \in EntrySites : Call(site)
    \/ Main
    \/ Lookup
    \/ RunStep

SpecLive == Init /\ [][NextLive]_vars /\ WF_vars(Lookup) /\ WF_vars(RunStep)

-----------------------------------------------------------------------------
(* Properties of the call trampoline *)

\* C1: when the trampoline is about to dispatch to a site whose hash is not in
\* the registry (the first site or one a Call transferred to), the call
\* returns the unknown-library error carrying exactly that hash: the hash is
\* looked up this once in the chain, no run invocation is made for the site,
\* and the registers are left alone.
C1_UnknownLibrary ==
    [][(pc = "lookup" /\ method.lib \notin DOMAIN libs)
         => /\ pc' = "returned"
            /\ result' = Err(method.lib)
            /\ lookups' = Append(lookups, method.lib)
            /\ \A i \in 1..Len(lookups) : lookups[i] # method.lib
            /\ runs' = runs
            /\ registers' = registers]_vars

\* The error is returned after a transfer, by a chain that ran libraries.
C1_Witness ==
    /\ pc = "returned"
    /\ ~result.ok
    /\ result.err = lib_hash(LibX)
    /\ Len(runs) >= 1
    /\ ncalls >= 1

\* C2: an instruction of library A yielding Call(site) ends that run
\* invocation at once with the transfer to site, and the next run invocation
\* of the trampoline is on the registered library whose hash is site.lib, at
\* offset site.pos, on the registers A left; so for every transfer.
C2_Transfer ==
    [][/\ (pc = "run" /\ loop_body(self, cursor, registers).kind = "Call")
           => /\ pc' = "lookup"
              /\ method' = loop_body(self, cursor, registers).val[1]
              /\ registers' = loop_body(self, cursor, registers).regs
              /\ runs' = runs
       /\ (pc = "lookup" /\ method.lib \in DOMAIN libs)
           => /\ pc' = "run"
              /\ self' = libs[method.lib]
              /\ lib_hash(self') = method.lib
              /\ cursor' = method.pos
              /\ registers' = registers
              /\ runs' = Append(runs, [lib |-> method.lib, pos |-> method.pos,
                                       regs |-> registers])]_vars

\* LibA has transferred to LibB at offset 1, on the registers LibA changed.
C2_Witness ==
    /\ pc = "run"
    /\ Len(runs) = 2
    /\ runs[1].lib = lib_hash(LibA)
    /\ runs[2].lib = lib_hash(LibB)
    /\ runs[2].pos = 1
    /\ cursor = 1
    /\ runs[2].regs # runs[1].regs
    /\ registers = runs[2].regs

\* C3: a call chain that ends because run returned no further transfer
\* returns success carrying st0 of the registers as they then are, after the
\* last instruction of the whole chain.
C3_FinalStatus ==
    (pc = "returned" /\ result.ok) => result.val = registers.st0

\* A chain over two libraries, the second of which changed st0 again.
C3_Witness ==
    /\ pc = "returned"
    /\ result.ok
    /\ Len(runs) = 2
    /\ runs[1].regs.st0 # runs[2].regs.st0
    /\ result.val # runs[2].regs.st0

\* C4: Jump never makes run return: a chain whose instructions yielded no
\* Call, however many Jumps, is exactly one run invocation.
C4_JumpStaysInRun ==
    ((pc = "run" \/ (pc = "returned" /\ result.ok)) /\ ncalls = 0)
        => (Len(runs) = 1 /\ Len(lookups) = 1)

\* A program that jumped twice and then halted, in one run invocation.
C4_Witness ==
    /\ pc = "returned"
    /\ result.ok
    /\ njumps >= 2
    /\ ncalls = 0
    /\ Len(runs) = 1

\* Where the loop of Lib::run stands: at the end of the array, at bytes that
\* decode to no instruction, or at an instruction with the given outcome.
AtEof == is_eof(self.bytecode.bytes, cursor)

Undecodable == ~AtEof /\ ~Instr_read(self.bytecode.bytes, cursor).ok

Outcome ==
    Instr_exec(Instr_read(self.bytecode.bytes, cursor), registers,
               LibSite_with(Instr_read(self.bytecode.bytes, cursor).next,
                            lib_hash(self))).step.kind

Halts == ~AtEof /\ ~Undecodable /\ Outcome = "Stop"

\* C13 as claimed: a call returns only because an instruction yielded Halt,
\* an instruction failed to decode, or the hash of the site is not registered.
C13_ThreeWays ==
    [][(pc # "returned" /\ pc' = "returned")
         => \/ pc = "run" /\ Halts
            \/ pc = "run" /\ Undecodable
            \/ pc = "lookup" /\ method.lib \notin DOMAIN libs]_vars

\* C13, amended: a call returns only because an instruction yielded Halt, an
\* instruction failed to decode, the hash of the site is not registered, or
\* the cursor is at the end of the buffer at the head of the loop of run.
C13_FourWays ==
    [][(pc # "returned" /\ pc' = "returned")
         => \/ pc = "run" /\ Halts
            \/ pc = "run" /\ Undecodable
            \/ pc = "lookup" /\ method.lib \notin DOMAIN libs
            \/ pc = "run" /\ AtEof]_vars

\* A chain that returned with the cursor at the end of the buffer.
C13_Witness ==
    /\ pc = "returned"
    /\ result.ok
    /\ Len(runs) >= 1
    /\ AtEof

\* C14: no step of call or main changes the registry or the entrypoint,
\* whatever the outcome and however many transfers.
C14_CallFrame ==
    [][pc' # "idle" => (libs' = libs /\ entrypoint' = entrypoint)]_vars

\* A runtime of the one library LibH, a single Halt, has run main: the default
\* status is returned and the registry has one entry.
C14_Witness ==
    /\ pc = "returned"
    /\ DOMAIN libs = {lib_hash(LibH)}
    /\ libs[lib_hash(LibH)] = LibH
    /\ entrypoint = LibSite_with(0, lib_hash(LibH))
    /\ runs = <<[lib |-> lib_hash(LibH), pos |-> 0, regs |-> regs0]>>
    /\ result = Ok(regs0.st0)
    /\ Cardinality(DOMAIN libs) = 1

\* C15: a decode failure in run is no error: run returns at once, no further
\* instruction is executed, and the call returns success with st0 as it is,
\* the registers keeping what earlier instructions did.
C15_DecodeFailureHalts ==
    [][(pc = "run" /\ Undecodable)
         => /\ pc' = "returned"
            /\ result' = Ok(registers.st0)
            /\ registers' = registers
            /\ runs' = runs]_vars

\* LibD negated st0, failed to decode at offset 1, and the call succeeded with
\* the negated st0.
C15_Witness ==
    /\ pc = "returned"
    /\ result.ok
    /\ self = LibD
    /\ cursor = 1
    /\ Undecodable
    /\ registers # entry_regs
    /\ result.val = registers.st0

\* C16: with the cursor at or past byte_count(), at entry or after a Continue
\* or a Jump, run decodes and executes nothing: it returns no further transfer
\* and leaves the registers.
C16_StopsAtByteCount ==
    [][(pc = "run" /\ cursor >= byte_count(self))
         => /\ pc' = "returned"
            /\ result'.ok
            /\ registers' = registers]_vars

\* C18: Runtime::with(lib) leaves exactly one registry entry, lib under its
\* hash, and the entrypoint at offset 0 of that hash, so that the entrypoint
\* resolves to lib; set_entrypoint changes the entrypoint alone; main enters
\* call with the entrypoint.
C18_Configuration ==
    [][/\ \A l \in LibPool :
            With(l) => /\ DOMAIN libs' = {lib_hash(l)}
                       /\ entrypoint' = LibSite_with(0, lib_hash(l))
                       /\ get(libs', entrypoint'.lib) = Some(l)
                       /\ registers' = regs0
       /\ \A site \in EntrypointSites :
            SetEntrypoint(site) => /\ entrypoint' = site
                                   /\ libs' = libs
                                   /\ registers' = registers
       /\ Main => /\ pc' = "lookup"
                  /\ method' = entrypoint
                  /\ UNCHANGED <<libs, entrypoint, registers>>]_vars

\* main on Runtime::with(LibA) has dispatched to LibA at offset 0.
C18_Witness ==
    /\ pc = "run"
    /\ DOMAIN libs = {lib_hash(LibA)}
    /\ entrypoint = LibSite_with(0, lib_hash(LibA))
    /\ method = entrypoint
    /\ self = LibA
    /\ runs = <<[lib |-> lib_hash(LibA), pos |-> 0, regs |-> regs0]>>

\* A call is in the loop of LibK, which jumps back to its own start.
JumpCycle == pc = "run" /\ self = LibK /\ cursor \in {0, 1}

\* A call is in the recursion of LibL, which is registered and calls itself.
CallCycle ==
    /\ lib_hash(LibL) \in DOMAIN libs
    /\ \/ pc = "run" /\ self = LibL /\ cursor \in {0, 1}
       \/ pc = "lookup" /\ method = LibSite_with(0, lib_hash(LibL))

\* C19: no step budget: once a call is in a cycle of Jump or Call outcomes,
\* every step leaves it in the cycle, so the call does not return, however
\* many jumps and transfers it has made.
C19_NoStepBudget ==
    [][(JumpCycle => JumpCycle') /\ (CallCycle => CallCycle')]_vars

\* A call has gone round the jump loop of LibK MaxJumps times and is still
\* running it.
C19_Witness == JumpCycle /\ njumps = MaxJumps /\ cursor = 0

\* C20: the unknown-library error leaves the registers as the instructions of
\* the chain left them, and the next call starts from the registers the last
\* call left: they are never reset.
C20_NoRollback ==
    [][/\ (pc = "lookup" /\ method.lib \notin DOMAIN libs /\ pc' = "returned")
           => registers' = registers
       /\ (pc = "returned" /\ pc' = "lookup")
           => (registers' = registers /\ entry_regs' = registers)]_vars

\* A chain changed st0 and then failed with the unknown-library error.
C20_Witness ==
    /\ pc = "returned"
    /\ ~result.ok
    /\ Len(runs) >= 1
    /\ registers # entry_regs

-----------------------------------------------------------------------------
(* Properties of the registry *)

C6_NeverOverwritten ==
    [][\A l \in LibPool : (AddLib(l) /\ lib_hash(l) \in DOMAIN libs)
         => /\ bytecode(libs'[lib_hash(l)]) = bytecode(libs[lib_hash(l)])
            /\ byte_count(libs'[lib_hash(l)]) = byte_count(libs[lib_hash(l)])]_vars

\* C7: the hash identifies a library by its raw bytecode: a library has the
\* hash of a registered one if and only if it has its bytecode, byte count
\* and bytes.
C7_HashOfBytecode ==
    \A h \in DOMAIN libs : \A l \in LibPool :
        (lib_hash(l) = h) <=> (bytecode(l) = bytecode(libs[h]))

-----------------------------------------------------------------------------
(* Properties of ByteStr *)

\* The lengths of the round trip: 0, 1, u16::MAX, u16::MAX + 1.
RoundTripLens == {0, 1, U16_MAX, U16_MAX + 1}

\* C8: ByteStr::with on a slice of length 0, 1, u16::MAX or u16::MAX + 1
\* succeeds, len() is that length and as_ref() is the slice.
C8_RoundTrip ==
    (bop.name = "with" /\ Len(src) \in RoundTripLens)
        => /\ ~bpanic
           /\ ByteStr_len(bs) = Len(src)
           /\ ~as_ref_panics(bs)
           /\ as_ref(bs) = src

\* C9: in every ByteStr reached by default or with and then adjust_len and
\* fill, the length is in 0..=u16::MAX+1 and within the allocated array, so
\* as_ref() is defined and has len() bytes.
C9_LenWithinStorage ==
    /\ ByteStr_len(bs) \in 0..(U16_MAX + 1)
    /\ ByteStr_len(bs) <= Len(bs.bytes)
    /\ ~as_ref_panics(bs)
    /\ Len(as_ref(bs)) = ByteStr_len(bs)

\* C10: len() after an adjust_len or a fill, whatever the arguments and
\* whether or not the fill completed, is at least len() before it.
C10_LenMonotone ==
    bop.name \in {"adjust_len", "fill"} => ByteStr_len(bs) >= bop.pre

\* An adjust_len that asked for less than the length kept it.
C10_Witness ==
    /\ bop.name = "adjust_len"
    /\ ~bop.incl
    /\ bop.arg < bop.pre
    /\ 0 < bop.pre
    /\ ByteStr_len(bs) = bop.pre

\* C11: fill(0..=k, v) on a fresh ByteStr, for every k up to u16::MAX and
\* every byte v, completes, sets the bytes 0..=k to v, leaves the bytes above
\* k zero, and leaves len() >= k + 1 (u16::MAX + 1 for k = u16::MAX).
C11_FillFresh ==
    [][\A k \in 0..U16_MAX : \A v \in BufBytes :
         (bs = ByteStr_default /\ ~bpanic /\ BufFill(0, k, v))
           => /\ ~bpanic'
              /\ \A i \in 1..Len(bs'.bytes) :
                   bs'.bytes[i] = (IF i <= k + 1 THEN v ELSE 0)
              /\ ByteStr_len(bs') >= k + 1
              /\ (k = U16_MAX => ByteStr_len(bs') = U16_MAX + 1)]_vars

\* C12 as claimed: ByteStr::with on a slice longer than u16::MAX + 1 fails
\* without a panic.
C12_Recoverable ==
    (bop.name = "with" /\ Len(src) > U16_MAX + 1) => ~bpanic

\* C12, amended: ByteStr::with on a slice longer than u16::MAX + 1 panics,
\* and produces no value.
C12_Panics ==
    (bop.name = "with" /\ Len(src) > U16_MAX + 1) => (bpanic /\ bs = ByteStr_default)

\* ByteStr::with was given u16::MAX + 2 bytes.
C12_Witness ==
    /\ bop.name = "with"
    /\ Len(src) = U16_MAX + 2
    /\ bpanic

MaxOf(a, b) == IF a >= b THEN a ELSE b

\* C17: adjust_len(new_len, inclusive) leaves the length at the larger of the
\* old length and new_len + 1 (inclusive) or new_len (not inclusive); a
\* ByteStr of length u16::MAX + 1 is left as it is; no byte is changed.
C17_AdjustLen ==
    [][\A n \in 0..U16_MAX : \A incl \in BOOLEAN :
         BufAdjustLen(n, incl)
           => /\ ByteStr_len(bs') =
                   MaxOf(ByteStr_len(bs), IF incl THEN n + 1 ELSE n)
              /\ (ByteStr_len(bs) = U16_MAX + 1 => bs' = bs)
              /\ bs'.bytes = bs.bytes]_vars

\* An inclusive adjust_len to u16::MAX made a shorter ByteStr full.
C17_Witness ==
    /\ bop.name = "adjust_len"
    /\ bop.incl
    /\ bop.arg = U16_MAX
    /\ bop.pre < U16_MAX
    /\ ByteStr_len(bs) = U16_MAX + 1

====
